---- MODULE Spec2Model ----
(***************************************************************************)
(* Model of rasa_core/channels/channel.py: the output channel dispatch     *)
(* (OutputChannel.send_response and the collecting / queue channels) and   *)
(* the REST input channel with its buffered and its streamed response.     *)
(*                                                                         *)
(* Python values are modelled as follows.  A str and a list are sequences  *)
(* (a str is a sequence of one-character strings), a dict is a function    *)
(* whose domain is the set of its keys.  An Optional value is None or      *)
(* Some(v); ids (sender, recipient) are atomic strings.                    *)
(***************************************************************************)
EXTENDS Integers, Sequences, FiniteSets, TLC

-----------------------------------------------------------------------------
(* Bounds of the model *)

MaxTextLen == 4
MaxButtons == 2
MaxElements == 2
MaxCalls == 2

-----------------------------------------------------------------------------
(* Python values *)

None == <<>>
Some(v) == <<v>>
Val(o) == o[1]

\* truthiness of an Optional str or list: None, "" and [] are falsy
Truthy(o) == o # None /\ Val(o) # <<>>

\* dict.get(key): the value, or None when the key is missing
get(d, key) == IF key \in DOMAIN d THEN Some(d[key]) ELSE None

SeqsUpTo(S, n) == UNION {[1..k -> S] : k \in 0..n}

RECURSIVE Concat(_)
Concat(ss) == IF ss = <<>> THEN <<>> ELSE Head(ss) \o Concat(Tail(ss))

find_rightmost(s, sep) ==
  LET hits == {j \in 1..(Len(s) - Len(sep) + 1) : SubSeq(s, j, j + Len(sep) - 1) = sep}
  IN IF hits = {} THEN 0 ELSE CHOOSE j \in hits : \A k \in hits : j >= k

\* str.find(sep): the least index at which sep occurs in s, 0 when it does not
find(s, sep) ==
  LET hits == {j \in 1..(Len(s) - Len(sep) + 1) : SubSeq(s, j, j + Len(sep) - 1) = sep}
  IN IF hits = {} THEN 0 ELSE CHOOSE j \in hits : \A k \in hits : j <= k

\* str.split(sep): cut at the leftmost occurrence of sep, then split the rest
RECURSIVE split(_, _)
split(s, sep) ==
  LET j == find(s, sep)
  IN IF j = 0 THEN <<s>>
     ELSE <<SubSeq(s, 1, j - 1)>> \o split(SubSeq(s, j + Len(sep), Len(s)), sep)

-----------------------------------------------------------------------------
(* UserMessage *)

DEFAULT_SENDER_ID == "default"

\* a variant that also replaces a missing text, by the empty text
UserMessage_default_text(text, output_channel, sender_id) ==
  [text |-> IF text # None THEN text ELSE Some(""),
   output_channel |-> IF output_channel # None THEN Val(output_channel)
                      ELSE "CollectingOutputChannel",
   sender_id |-> IF sender_id # None THEN Val(sender_id) ELSE DEFAULT_SENDER_ID,
   parse_data |-> None]

UserMessage(text, output_channel, sender_id) ==
  [text |-> text,
   output_channel |-> IF output_channel # None THEN Val(output_channel)
                      ELSE "CollectingOutputChannel",
   sender_id |-> IF sender_id # None THEN Val(sender_id) ELSE DEFAULT_SENDER_ID,
   parse_data |-> None]

-----------------------------------------------------------------------------
(* CollectingOutputChannel: the message objects it builds *)

\* utils.remove_none_values: keep the keys whose value is not None
remove_none_values(obj) ==
  [k \in {key \in DOMAIN obj : obj[key] # None} |-> Val(obj[k])]

\* a variant that keeps the fields that were not given
_message_keep_none(recipient_id, text, image, buttons, attachment) ==
  LET obj == [recipient_id |-> Some(recipient_id),
              text |-> text,
              image |-> image,
              buttons |-> buttons,
              attachment |-> attachment]
  IN [k \in DOMAIN obj |-> IF obj[k] = None THEN None ELSE Val(obj[k])]

_message(recipient_id, text, image, buttons, attachment) ==
  remove_none_values([recipient_id |-> Some(recipient_id),
                      text |-> text,
                      image |-> image,
                      buttons |-> buttons,
                      attachment |-> attachment])

ParagraphSep == <<"\n", "\n">>

\* Each send_* below is the sequence of message objects the method hands to
\* _persist_message, in call order.

CollectingOutputChannel_send_text_message(recipient_id, message) ==
  LET parts == split(message, ParagraphSep)
  IN [i \in 1..Len(parts) |-> _message(recipient_id, Some(parts[i]), None, None, None)]

CollectingOutputChannel_send_text_with_buttons(recipient_id, message, buttons) ==
  <<_message(recipient_id, message, None, Some(buttons), None)>>

CollectingOutputChannel_send_image_url(recipient_id, image_url) ==
  <<_message(recipient_id, None, Some(image_url), None, None)>>

CollectingOutputChannel_send_attachment(recipient_id, attachment) ==
  <<_message(recipient_id, None, None, None, Some(attachment))>>

\* "{title} : {subtitle}".format(...)
element_msg(element) == element.title \o <<" ", ":", " ">> \o element.subtitle

send_custom_message_first_only(recipient_id, elements) ==
  CollectingOutputChannel_send_text_with_buttons(
      recipient_id, Some(element_msg(elements[1])), elements[1].buttons)

\* OutputChannel.send_custom_message, inherited: one send_text_with_buttons
\* per element, in order
send_custom_message(recipient_id, elements) ==
  Concat([i \in 1..Len(elements) |->
            CollectingOutputChannel_send_text_with_buttons(
                recipient_id, Some(element_msg(elements[i])), elements[i].buttons)])

\* send_response with the buttons test ahead of the elements test
send_response_buttons_first(recipient_id, message) ==
  (IF Truthy(get(message, "buttons"))
     THEN CollectingOutputChannel_send_text_with_buttons(
              recipient_id, get(message, "text"), message.buttons)
   ELSE IF Truthy(get(message, "elements"))
     THEN send_custom_message(recipient_id, message.elements)
   ELSE IF Truthy(get(message, "text"))
     THEN CollectingOutputChannel_send_text_message(recipient_id, message.text)
   ELSE <<>>)
  \o (IF Truthy(get(message, "image"))
        THEN CollectingOutputChannel_send_image_url(recipient_id, message.image)
        ELSE <<>>)
  \o (IF Truthy(get(message, "attachment"))
        THEN CollectingOutputChannel_send_attachment(recipient_id, message.attachment)
        ELSE <<>>)

\* send_response with the attachment sent ahead of the image
send_response_attachment_first(recipient_id, message) ==
  (IF Truthy(get(message, "elements"))
     THEN send_custom_message(recipient_id, message.elements)
   ELSE IF Truthy(get(message, "buttons"))
     THEN CollectingOutputChannel_send_text_with_buttons(
              recipient_id, get(message, "text"), message.buttons)
   ELSE IF Truthy(get(message, "text"))
     THEN CollectingOutputChannel_send_text_message(recipient_id, message.text)
   ELSE <<>>)
  \o (IF Truthy(get(message, "attachment"))
        THEN CollectingOutputChannel_send_attachment(recipient_id, message.attachment)
        ELSE <<>>)
  \o (IF Truthy(get(message, "image"))
        THEN CollectingOutputChannel_send_image_url(recipient_id, message.image)
        ELSE <<>>)

\* OutputChannel.send_response, inherited by both channels
send_response(recipient_id, message) ==
  (IF Truthy(get(message, "elements"))
     THEN send_custom_message(recipient_id, message.elements)
   ELSE IF Truthy(get(message, "buttons"))
     THEN CollectingOutputChannel_send_text_with_buttons(
              recipient_id, get(message, "text"), message.buttons)
   ELSE IF Truthy(get(message, "text"))
     THEN CollectingOutputChannel_send_text_message(recipient_id, message.text)
   ELSE <<>>)
  \o (IF Truthy(get(message, "image"))
        THEN CollectingOutputChannel_send_image_url(recipient_id, message.image)
        ELSE <<>>)
  \o (IF Truthy(get(message, "attachment"))
        THEN CollectingOutputChannel_send_attachment(recipient_id, message.attachment)
        ELSE <<>>)

CollectingOutputChannel_persist_message_replace(messages, message) == <<message>>

\* CollectingOutputChannel._persist_message: self.messages.append(message)
CollectingOutputChannel_persist_message(messages, message) == Append(messages, message)

\* a variant that loses the message
QueueOutputChannel_persist_message_drop(q, message) == q

QueueOutputChannel_persist_message_lifo(q, message) == <<message>> \o q

\* QueueOutputChannel._persist_message: self.messages.put(message)
QueueOutputChannel_persist_message(q, message) == Append(q, message)

-----------------------------------------------------------------------------
(* Response payloads the dialogue callback may pass to send_response *)

Chars == {"a", "\n"}
Texts == SeqsUpTo(Chars, MaxTextLen)

YesButton == [title |-> <<"Y", "e", "s">>, payload |-> <<"/", "a", "f", "f", "i", "r", "m">>]
NoButton == [title |-> <<"N", "o">>, payload |-> <<"/", "d", "e", "n", "y">>]
ButtonLists == SeqsUpTo({YesButton, NoButton}, MaxButtons)

ElementPool ==
  {[title |-> <<"t">>, subtitle |-> <<"s">>, buttons |-> bs] :
     bs \in {bl \in ButtonLists : \A i \in DOMAIN bl : bl[i] = YesButton}}
ElementLists == SeqsUpTo(ElementPool, MaxElements)

Urls == {<<>>, <<"u">>}
Files == {<<>>, <<"f">>}

Optional(S) == {None} \cup {Some(v) : v \in S}

\* the dict with the keys whose value was given
Payload(text, buttons, elements, image, attachment) ==
  remove_none_values([text |-> text, buttons |-> buttons, elements |-> elements,
                      image |-> image, attachment |-> attachment])

\* the texts that come along with buttons or elements
ShortTexts == {t \in Texts : Len(t) <= 1} \cup {<<"a", "\n", "\n", "a">>}

\* every text on its own or with image and attachment; the short texts with
\* every combination of buttons, elements, image and attachment
Payloads ==
  {Payload(text, None, None, image, attachment) :
     text \in Optional(Texts), image \in Optional(Urls), attachment \in Optional(Files)}
  \cup
  {Payload(text, buttons, elements, image, attachment) :
     text \in Optional(ShortTexts), buttons \in Optional(ButtonLists),
     elements \in Optional(ElementLists),
     image \in Optional(Urls), attachment \in Optional(Files)}

\* the payloads of the callbacks that run behind the REST channel
TwoParagraphs == Payload(Some(<<"a", "\n", "\n", "a", "a">>), None, None, None, None)
ButtonsAndImage == Payload(Some(<<"a">>), Some(<<YesButton, NoButton>>), None, Some(<<"u">>), None)
OneElement == Payload(None, None, Some(<<[title |-> <<"t">>, subtitle |-> <<"s">>,
                                          buttons |-> <<YesButton>>]>>), None, None)
BridgePayloads == {TwoParagraphs, ButtonsAndImage, OneElement}

-----------------------------------------------------------------------------
(* RestInput: the state of the requests it serves *)

Requests == {"r1", "r2"}

VARIABLES
  request,      \* request[r]: the HTTP request, its JSON body and query args
  handlerPc,    \* where receive() / the stream_response generator of r stands
  workerPc,     \* where the thread running on_message_wrapper for r stands
  userMessage,  \* the UserMessage handed to on_new_message, None before
  invocations,  \* how many times on_new_message was invoked for r
  calls,        \* the payloads the callback has passed to send_response so far
  messages,     \* CollectingOutputChannel.messages of the buffered request
  queue,        \* the Queue q of the streamed request
  pending,      \* message objects of the running send_response not yet put
  emitted,      \* every message object the queue channel has put so far
  gets,         \* how many q.get() calls of the reader have returned
  yielded,      \* the lines the stream_response generator has yielded so far
  response,     \* the HTTP response: None, or its status and JSON body
  channel       \* an output channel used on its own, outside RestInput

vars == <<request, handlerPc, workerPc, userMessage, invocations, calls, messages,
          queue, pending, emitted, gets, yielded, response, channel>>

\* the sentinel "DONE", a str on a queue that otherwise holds dicts
DONE == [str |-> "DONE"]

\* utils.bool_arg(name, default): the boolean query argument, default if missing
bool_arg(args, name, default) == IF name \in DOMAIN args THEN args[name] ELSE default

_extract_sender(req) == get(req.json, "sender")
_extract_message(req) == get(req.json, "message")

\* json.dumps(response) + "\n": one line of the event stream
json_line(obj) == [json |-> obj, end |-> "\n"]

\* jsonify(collector.messages): a 200 response with the list as JSON body
jsonify(obj) == [status |-> 200, json |-> obj]

EmptyDict == [k \in {} |-> None]
JsonBodies == {[sender |-> "u1", message |-> "hi"], [message |-> "hi"]}

\* no channel is used outside RestInput
NoChannel == [cls |-> "none", out |-> <<>>, raised |-> None, ops |-> <<>>, latest |-> None]

\* the requests in flight: r1 is posted without the stream argument, r2 with it
PairRequests ==
  {rq \in [Requests -> [json : JsonBodies, args : {EmptyDict, [stream |-> TRUE]}]] :
     /\ rq["r1"].args = EmptyDict
     /\ rq["r2"].args = [stream |-> TRUE]}

\* the state before any of the requests rqs is handled
InitRequests(rqs) ==
  /\ request \in rqs
  /\ handlerPc = [r \in Requests |-> "idle"]
  /\ workerPc = [r \in Requests |-> "none"]
  /\ userMessage = [r \in Requests |-> None]
  /\ invocations = [r \in Requests |-> 0]
  /\ calls = [r \in Requests |-> <<>>]
  /\ messages = [r \in Requests |-> <<>>]
  /\ queue = [r \in Requests |-> <<>>]
  /\ pending = [r \in Requests |-> <<>>]
  /\ emitted = [r \in Requests |-> <<>>]
  /\ gets = [r \in Requests |-> 0]
  /\ yielded = [r \in Requests |-> <<>>]
  /\ response = [r \in Requests |-> None]

Init ==
  /\ InitRequests(PairRequests)
  /\ channel = NoChannel

\* a variant with one queue for all calls: q created once, in __init__
queue_of_shared(r) == "r1"

\* stream_response: q = Queue(), a queue of its own for each call
queue_of(r) == r

\* a variant with room for one item: Queue(maxsize=1)
can_put_bounded(q) == Len(q) < 1

\* Queue() has no maxsize: put never waits for room
can_put(q) == TRUE

\* receive(): POST /webhook.  With stream the response is the generator of
\* stream_response, whose first step creates the queue and starts the thread;
\* the thread builds the UserMessage and enters on_new_message.  Without
\* stream the handler itself enters on_new_message with a collector.
receive(r) ==
  /\ handlerPc[r] = "idle"
  /\ LET sender_id == _extract_sender(request[r])
         text == _extract_message(request[r])
         should_use_stream == bool_arg(request[r].args, "stream", FALSE)
     IN IF should_use_stream
          THEN /\ handlerPc' = [handlerPc EXCEPT ![r] = "stream"]
               /\ workerPc' = [workerPc EXCEPT ![r] = "callback"]
               /\ userMessage' = [userMessage EXCEPT ![r] =
                     Some(UserMessage(text, Some("QueueOutputChannel"), sender_id))]
               /\ response' = [response EXCEPT ![r] =
                     Some([status |-> 200, content_type |-> "text/event-stream"])]
          ELSE /\ handlerPc' = [handlerPc EXCEPT ![r] = "callback"]
               /\ userMessage' = [userMessage EXCEPT ![r] =
                     Some(UserMessage(text, Some("CollectingOutputChannel"), sender_id))]
               /\ UNCHANGED <<workerPc, response>>
  /\ invocations' = [invocations EXCEPT ![r] = @ + 1]
  /\ UNCHANGED <<channel, request, calls, messages, queue, pending, emitted, gets, yielded>>

InCallback(r) ==
  \/ handlerPc[r] = "callback"
  \/ workerPc[r] = "callback" /\ pending[r] = <<>>

RECURSIVE persist_all(_, _)
persist_all(msgs, out) ==
  IF out = <<>> THEN msgs
  ELSE persist_all(CollectingOutputChannel_persist_message(msgs, Head(out)), Tail(out))

\* the callback calls message.output_channel.send_response(message.sender_id, p).
\* On the collector the call runs to its end within the handler; on the queue
\* channel every _persist_message is a put the reader can interleave with.
callback_send(r, p) ==
  /\ InCallback(r)
  /\ Len(calls[r]) < MaxCalls
  /\ LET message == Val(userMessage[r])
         out == send_response(message.sender_id, p)
     IN IF message.output_channel = "QueueOutputChannel"
          THEN /\ pending' = [pending EXCEPT ![r] = out]
               /\ UNCHANGED messages
          ELSE /\ messages' = [messages EXCEPT ![r] = persist_all(@, out)]
               /\ UNCHANGED pending
  /\ calls' = [calls EXCEPT ![r] = Append(@, p)]
  /\ UNCHANGED <<channel, request, handlerPc, workerPc, userMessage, invocations, queue,
                 emitted, gets, yielded, response>>

\* QueueOutputChannel._persist_message within the running send_response
worker_put(r) ==
  /\ workerPc[r] = "callback"
  /\ pending[r] # <<>>
  /\ can_put(queue[queue_of(r)])
  /\ queue' = [queue EXCEPT ![queue_of(r)] =
                  QueueOutputChannel_persist_message(@, Head(pending[r]))]
  /\ emitted' = [emitted EXCEPT ![r] = Append(@, Head(pending[r]))]
  /\ pending' = [pending EXCEPT ![r] = Tail(@)]
  /\ UNCHANGED <<channel, request, handlerPc, workerPc, userMessage, invocations, calls,
                 messages, gets, yielded, response>>

\* on_new_message returns.  receive() answers jsonify(collector.messages);
\* on_message_wrapper goes on to its last line.
callback_return(r) ==
  /\ InCallback(r)
  /\ IF handlerPc[r] = "callback"
       THEN /\ handlerPc' = [handlerPc EXCEPT ![r] = "done"]
            /\ response' = [response EXCEPT ![r] = Some(jsonify(messages[r]))]
            /\ UNCHANGED workerPc
       ELSE /\ workerPc' = [workerPc EXCEPT ![r] = "put_done"]
            /\ UNCHANGED <<handlerPc, response>>
  /\ UNCHANGED <<channel, request, userMessage, invocations, calls, messages, queue, pending,
                 emitted, gets, yielded>>

\* a variant that discards what is on the queue when the callback raises
callback_raise_flush(r) ==
  /\ InCallback(r)
  /\ IF handlerPc[r] = "callback"
       THEN /\ handlerPc' = [handlerPc EXCEPT ![r] = "error"]
            /\ response' = [response EXCEPT ![r] = Some([status |-> 500])]
            /\ UNCHANGED <<workerPc, queue>>
       ELSE /\ workerPc' = [workerPc EXCEPT ![r] = "dead"]
            /\ queue' = [queue EXCEPT ![queue_of(r)] = <<>>]
            /\ UNCHANGED <<handlerPc, response>>
  /\ UNCHANGED <<channel, request, userMessage, invocations, calls, messages, pending,
                 emitted, gets, yielded>>

\* on_new_message raises.  In receive() the exception leaves the handler, the
\* request fails with status 500.  In on_message_wrapper nothing catches it:
\* the thread ends at line 263 and line 265 is not run.
callback_raise(r) ==
  /\ InCallback(r)
  /\ IF handlerPc[r] = "callback"
       THEN /\ handlerPc' = [handlerPc EXCEPT ![r] = "error"]
            /\ response' = [response EXCEPT ![r] = Some([status |-> 500])]
            /\ UNCHANGED workerPc
       ELSE /\ workerPc' = [workerPc EXCEPT ![r] = "dead"]
            /\ UNCHANGED <<handlerPc, response>>
  /\ UNCHANGED <<channel, request, userMessage, invocations, calls, messages, queue, pending,
                 emitted, gets, yielded>>

\* a variant that puts the sentinel twice
worker_put_done_twice(r) ==
  /\ workerPc[r] = "put_done"
  /\ can_put(queue[queue_of(r)])
  /\ queue' = [queue EXCEPT ![queue_of(r)] = Append(Append(@, DONE), DONE)]
  /\ workerPc' = [workerPc EXCEPT ![r] = "done"]
  /\ UNCHANGED <<channel, request, handlerPc, userMessage, invocations, calls, messages,
                 pending, emitted, gets, yielded, response>>

\* on_message_wrapper, last line: queue.put("DONE")
worker_put_done(r) ==
  /\ workerPc[r] = "put_done"
  /\ can_put(queue[queue_of(r)])
  /\ queue' = [queue EXCEPT ![queue_of(r)] = Append(@, DONE)]
  /\ workerPc' = [workerPc EXCEPT ![r] = "done"]
  /\ UNCHANGED <<channel, request, handlerPc, userMessage, invocations, calls, messages,
                 pending, emitted, gets, yielded, response>>

is_done_never(item) == FALSE

\* stream_response: response == "DONE"
is_done(item) == item = DONE

\* stream_response, one turn of the loop: q.get() blocks while the queue is
\* empty; "DONE" ends the generator, anything else is yielded as a line.
reader_get(r) ==
  /\ handlerPc[r] = "stream"
  /\ queue[queue_of(r)] # <<>>
  /\ LET item == Head(queue[queue_of(r)])
     IN /\ queue' = [queue EXCEPT ![queue_of(r)] = Tail(@)]
        /\ gets' = [gets EXCEPT ![r] = @ + 1]
        /\ IF is_done(item)
             THEN /\ handlerPc' = [handlerPc EXCEPT ![r] = "done"]
                  /\ UNCHANGED yielded
             ELSE /\ yielded' = [yielded EXCEPT ![r] = Append(@, json_line(item))]
                  /\ UNCHANGED handlerPc
  /\ UNCHANGED <<channel, request, workerPc, userMessage, invocations, calls, messages,
                 pending, emitted, response>>

Next ==
  \E r \in Requests :
    \/ receive(r)
    \/ \E p \in BridgePayloads : callback_send(r, p)
    \/ worker_put(r)
    \/ callback_return(r)
    \/ callback_raise(r)
    \/ worker_put_done(r)
    \/ reader_get(r)

Spec == Init /\ [][Next]_vars

-----------------------------------------------------------------------------
(* The dispatch of one send_response call, over all payloads: one request is *)
(* served, on the collector or on the queue channel, and its callback makes  *)
(* one call.                                                                 *)

DispatchInit ==
  /\ Init
  /\ \A r \in Requests : request[r].json = [sender |-> "u1", message |-> "hi"]

DispatchNext ==
  \E r \in Requests :
    \/ /\ \A o \in Requests : handlerPc[o] = "idle"
       /\ receive(r)
    \/ /\ InCallback(r)
       /\ calls[r] = <<>>
       /\ \E p \in Payloads : callback_send(r, p)
    \/ worker_put(r)

SpecDispatch == DispatchInit /\ [][DispatchNext]_vars

-----------------------------------------------------------------------------
(* Vocabulary of the properties *)

Range(s) == {s[i] : i \in DOMAIN s}

Buffered(r) == userMessage[r] # None /\ Val(userMessage[r]).output_channel = "CollectingOutputChannel"
Streamed(r) == userMessage[r] # None /\ Val(userMessage[r]).output_channel = "QueueOutputChannel"

\* the Rendered Messages the sink of r has taken so far, in order
SinkContent(r) == IF Streamed(r) THEN emitted[r] ELSE messages[r]

\* the callback of r has made exactly one send_response call and it has ended
OneCallDone(r) == userMessage[r] # None /\ Len(calls[r]) = 1 /\ pending[r] = <<>>

\* a payload key is present when it holds a non-empty value
Present(p, key) == key \in DOMAIN p /\ p[key] # <<>>

Count(b) == IF b THEN 1 ELSE 0

\* the messages of the primary branch: all but the image and attachment ones
Primary(out, p) ==
  SubSeq(out, 1, Len(out) - Count(Present(p, "image")) - Count(Present(p, "attachment")))

RECURSIVE Join(_, _)
Join(segs, sep) ==
  IF Len(segs) = 1 THEN segs[1] ELSE segs[1] \o sep \o Join(Tail(segs), sep)

HasDoubleNewline(s) == \E j \in 1..(Len(s) - 1) : s[j] = "\n" /\ s[j + 1] = "\n"

-----------------------------------------------------------------------------
(* Streaming *)

\* C1: once the worker of a streamed request has ended, whether the callback
\* returned or raised, the sentinel "DONE" has been put on the queue (it is on
\* the queue or the reader has taken it and ended).
C1_SentinelAfterWorkerEnds ==
  \A r \in Requests :
    workerPc[r] \in {"done", "dead"} =>
      (DONE \in Range(queue[r]) \/ handlerPc[r] = "done")

\* C2: the lines the reader has yielded are, in order, the serialized first
\* messages the queue channel has emitted; once the reader has ended they are
\* all of them.
C2_YieldedIsPrefixOfEmitted ==
  \A r \in Requests :
    /\ Len(yielded[r]) <= Len(emitted[r])
    /\ \A i \in 1..Len(yielded[r]) : yielded[r][i] = json_line(emitted[r][i])
    /\ (Streamed(r) /\ handlerPc[r] = "done") => Len(yielded[r]) = Len(emitted[r])

C2_Witness ==
  \E r \in Requests :
    Streamed(r) /\ handlerPc[r] = "done" /\ Len(calls[r]) = 2 /\ Len(yielded[r]) >= 3

\* C3: the reader never yields the sentinel, and once it has taken the
\* sentinel it stays ended, takes nothing more from the queue and yields
\* nothing more.
C3_DoneIsAbsorbing ==
  /\ [](\A r \in Requests : json_line(DONE) \notin Range(yielded[r]))
  /\ [][\A r \in Requests :
          (Streamed(r) /\ handlerPc[r] = "done") =>
             /\ handlerPc'[r] = "done"
             /\ gets'[r] = gets[r]
             /\ yielded'[r] = yielded[r]]_vars

C3_Witness ==
  \E r \in Requests :
    Streamed(r) /\ handlerPc[r] = "done" /\ yielded[r] # <<>> /\ gets[r] = Len(yielded[r]) + 1

\* C4: when the callback has failed, the request has an error outcome and the
\* callback was invoked once, on the buffered and on the streamed path.
C4_FailureSurfaced ==
  \A r \in Requests :
    (handlerPc[r] = "error" \/ workerPc[r] = "dead") =>
      /\ invocations[r] = 1
      /\ response[r] # None
      /\ Val(response[r]).status = 500

-----------------------------------------------------------------------------
(* Dispatch of send_response *)

\* C5: one primary branch runs, elements before buttons before text.  With
\* non-empty elements the primary messages are the elements' renderings, one
\* per element; without elements but with non-empty buttons there is one
\* message with the payload's text and buttons; with neither, a non-empty text
\* is rendered as plain text messages; with none of the three nothing is.
C5_PrimaryBranchPrecedence ==
  \A r \in Requests :
    OneCallDone(r) =>
      LET p == calls[r][1]
          rid == Val(userMessage[r]).sender_id
          prim == Primary(SinkContent(r), p)
      IN IF Present(p, "elements")
           THEN /\ Len(prim) = Len(p.elements)
                /\ \A i \in 1..Len(prim) :
                     prim[i] = [recipient_id |-> rid,
                                text |-> p.elements[i].title \o <<" ", ":", " ">>
                                           \o p.elements[i].subtitle,
                                buttons |-> p.elements[i].buttons]
         ELSE IF Present(p, "buttons")
           THEN /\ Len(prim) = 1
                /\ prim[1].recipient_id = rid
                /\ prim[1].buttons = p.buttons
                /\ IF "text" \in DOMAIN p
                     THEN DOMAIN prim[1] = {"recipient_id", "text", "buttons"}
                          /\ prim[1].text = p.text
                     ELSE DOMAIN prim[1] = {"recipient_id", "buttons"}
         ELSE IF Present(p, "text")
           THEN /\ Len(prim) >= 1
                /\ \A i \in 1..Len(prim) : DOMAIN prim[i] = {"recipient_id", "text"}
                /\ Join([i \in 1..Len(prim) |-> prim[i].text], ParagraphSep) = p.text
         ELSE prim = <<>>

C5_Witness ==
  \E r \in Requests :
    /\ OneCallDone(r)
    /\ Present(calls[r][1], "elements")
    /\ Present(calls[r][1], "buttons")
    /\ Present(calls[r][1], "text")
    /\ Len(SinkContent(r)) = 2

\* C6: whatever the primary branch, a non-empty image adds one image message
\* and a non-empty attachment one attachment message; they come after the
\* primary messages, the image one before the attachment one.  A payload with
\* text and image gives at least two messages, the image one not the first.
C6_ImageThenAttachmentLast ==
  \A r \in Requests :
    OneCallDone(r) =>
      LET p == calls[r][1]
          rid == Val(userMessage[r]).sender_id
          out == SinkContent(r)
          ni == Count(Present(p, "image"))
          na == Count(Present(p, "attachment"))
      IN /\ Len(out) >= ni + na
         /\ Present(p, "image") =>
              out[Len(out) - na] = [recipient_id |-> rid, image |-> p.image]
         /\ Present(p, "attachment") =>
              out[Len(out)] = [recipient_id |-> rid, attachment |-> p.attachment]
         /\ \A i \in 1..(Len(out) - ni - na) :
              "image" \notin DOMAIN out[i] /\ "attachment" \notin DOMAIN out[i]
         /\ (Present(p, "text") /\ Present(p, "image")) =>
              (Len(out) >= 2 /\ "image" \notin DOMAIN out[1])

C6_Witness ==
  \E r \in Requests :
    /\ OneCallDone(r)
    /\ Present(calls[r][1], "text")
    /\ Present(calls[r][1], "image")
    /\ Present(calls[r][1], "attachment")
    /\ Len(SinkContent(r)) >= 4

SumButtons(elements) == Len(Concat([i \in 1..Len(elements) |-> elements[i].buttons]))

\* C7 as stated: for a payload with elements and no image or attachment the
\* number of messages is the sum over the elements of 1 + its number of
\* buttons, on the collector and on the queue channel.
C7_CountIsElementsPlusButtons ==
  \A r \in Requests :
    LET p == calls[r][1]
    IN (OneCallDone(r) /\ Present(p, "elements")
        /\ ~Present(p, "image") /\ ~Present(p, "attachment")) =>
         Len(SinkContent(r)) = Len(p.elements) + SumButtons(p.elements)

\* C7 amended: on the collector and on the queue channel the number of
\* messages is the number of elements, and the i-th message carries the
\* buttons of the i-th element.
C7_CountIsElements ==
  \A r \in Requests :
    LET p == calls[r][1]
        out == SinkContent(r)
    IN (OneCallDone(r) /\ Present(p, "elements")
        /\ ~Present(p, "image") /\ ~Present(p, "attachment")) =>
         /\ Len(out) = Len(p.elements)
         /\ \A i \in 1..Len(out) : out[i].buttons = p.elements[i].buttons

C7_Witness ==
  \E r \in Requests :
    LET p == calls[r][1]
    IN /\ OneCallDone(r) /\ Streamed(r)
       /\ Present(p, "elements")
       /\ ~Present(p, "image") /\ ~Present(p, "attachment")
       /\ Len(p.elements) = 2
       /\ Len(p.elements[1].buttons) = 2
       /\ Len(p.elements[2].buttons) = 0

\* C8: for a payload with only a non-empty text the collector holds one
\* message per segment of the text cut at the double newlines, leftmost cut
\* first, in order, each with the recipient id and the segment as text; a text
\* without double newline gives one message with the whole text.
C8_OneMessagePerParagraph ==
  \A r \in Requests :
    LET p == calls[r][1]
        out == messages[r]
    IN (OneCallDone(r) /\ Buffered(r) /\ DOMAIN p = {"text"} /\ Present(p, "text")) =>
         /\ Len(out) >= 1
         /\ \A i \in 1..Len(out) :
              /\ DOMAIN out[i] = {"recipient_id", "text"}
              /\ out[i].recipient_id = Val(userMessage[r]).sender_id
              /\ ~HasDoubleNewline(out[i].text)
              /\ i < Len(out) =>
                   (out[i].text = <<>> \/ out[i].text[Len(out[i].text)] # "\n")
         /\ Join([i \in 1..Len(out) |-> out[i].text], ParagraphSep) = p.text
         /\ ~HasDoubleNewline(p.text) => out = <<[recipient_id |-> Val(userMessage[r]).sender_id,
                                                    text |-> p.text]>>

C8_Witness ==
  \E r \in Requests :
    /\ OneCallDone(r) /\ Buffered(r)
    /\ DOMAIN calls[r][1] = {"text"}
    /\ Len(messages[r]) = 3

\* C9: every message a collector holds or a queue channel has put has at least
\* one of text, image, buttons, attachment holding a non-empty value.
C9_NoEmptyMessage ==
  \A r \in Requests :
    \A m \in Range(messages[r]) \cup Range(emitted[r]) :
      \E key \in {"text", "image", "buttons", "attachment"} :
        key \in DOMAIN m /\ m[key] # <<>>

-----------------------------------------------------------------------------
(* The queue channel against the collector *)

\* C10: when a streamed request and a buffered request have the same sender
\* and their callbacks have made the same send_response calls, the messages
\* the queue channel has put are, in order, the messages the collector holds;
\* when both requests have ended, the lines of the stream are the serialized
\* elements of the buffered JSON body.
C10_QueueChannelMatchesCollector ==
  \A b \in Requests, s \in Requests :
    (/\ Buffered(b) /\ Streamed(s)
     /\ Val(userMessage[b]).sender_id = Val(userMessage[s]).sender_id
     /\ calls[b] = calls[s]
     /\ pending[s] = <<>>) =>
       /\ emitted[s] = messages[b]
       /\ (handlerPc[b] = "done" /\ handlerPc[s] = "done") =>
            LET body == Val(response[b]).json
            IN yielded[s] = [i \in 1..Len(body) |-> json_line(body[i])]

C10_Witness ==
  \E b \in Requests, s \in Requests :
    /\ Buffered(b) /\ Streamed(s)
    /\ Val(userMessage[b]).sender_id = Val(userMessage[s]).sender_id
    /\ calls[b] = calls[s]
    /\ Len(calls[b]) = 2
    /\ calls[b][1] # calls[b][2]
    /\ handlerPc[b] = "done" /\ handlerPc[s] = "done"
    /\ Len(yielded[s]) >= 3

-----------------------------------------------------------------------------
(* OutputChannel, the base class, and a channel for text only output: a     *)
(* subclass that overrides send_text_message alone.  A method call gives    *)
(* the send_text_message calls that got through, in order, and the          *)
(* exception that ended it, if any.                                         *)

Returned(out) == [out |-> out, raised |-> None]
Raised(exception) == [out |-> <<>>, raised |-> Some(exception)]

\* b runs after a unless a raised
Then(a, b) ==
  IF a.raised # None THEN a ELSE [out |-> a.out \o b.out, raised |-> b.raised]

Digits == <<"0", "1", "2", "3", "4", "5", "6", "7", "8", "9">>

\* "{}".format(n) of a natural number
RECURSIVE str(_)
str(n) == IF n < 10 THEN <<Digits[n + 1]>> ELSE str(n \div 10) \o <<Digits[(n % 10) + 1]>>

button_to_string_zero_based(button, idx) ==
  str(idx) \o <<":", " ">> \o button.title \o <<" ", "(">> \o button.payload \o <<")">>

\* "{idx}: {title} ({val})".format(idx=idx + 1, ...)
button_to_string(button, idx) ==
  str(idx + 1) \o <<":", " ">> \o button.title \o <<" ", "(">> \o button.payload \o <<")">>

OutputChannel_send_text_message_silent(recipient_id, message) == Returned(<<>>)

\* OutputChannel.send_text_message: not implemented
OutputChannel_send_text_message(recipient_id, message) == Raised("NotImplementedError")

\* send_text_message of the text only channel: the text is sent out
TextOutputChannel_send_text_message(recipient_id, message) ==
  Returned(<<[recipient_id |-> recipient_id, text |-> message]>>)

\* self.send_text_message(...) on a channel of class cls
self_send_text_message(cls, recipient_id, message) ==
  IF cls = "OutputChannel"
    THEN OutputChannel_send_text_message(recipient_id, message)
    ELSE TextOutputChannel_send_text_message(recipient_id, message)

\* OutputChannel.send_image_url: "Image: {}".format(image_url)
OutputChannel_send_image_url(cls, recipient_id, image_url) ==
  self_send_text_message(cls, recipient_id,
                         Some(<<"I", "m", "a", "g", "e", ":", " ">> \o image_url))

\* OutputChannel.send_attachment: "Attachment: {}".format(attachment)
OutputChannel_send_attachment(cls, recipient_id, attachment) ==
  self_send_text_message(cls, recipient_id,
      Some(<<"A", "t", "t", "a", "c", "h", "m", "e", "n", "t", ":", " ">> \o attachment))

\* the loop of send_text_with_buttons from index idx (0-based) on
RECURSIVE send_buttons_from(_, _, _, _)
send_buttons_from(cls, recipient_id, buttons, idx) ==
  IF idx >= Len(buttons) THEN Returned(<<>>)
  ELSE Then(self_send_text_message(cls, recipient_id,
                                   Some(button_to_string(buttons[idx + 1], idx))),
            send_buttons_from(cls, recipient_id, buttons, idx + 1))

\* OutputChannel.send_text_with_buttons: the text, then one text per button
OutputChannel_send_text_with_buttons(cls, recipient_id, message, buttons) ==
  Then(self_send_text_message(cls, recipient_id, message),
       send_buttons_from(cls, recipient_id, buttons, 0))

\* OutputChannel.send_custom_message on a channel that keeps the default
\* send_text_with_buttons
RECURSIVE OutputChannel_send_custom_message(_, _, _)
OutputChannel_send_custom_message(cls, recipient_id, elements) ==
  IF elements = <<>> THEN Returned(<<>>)
  ELSE Then(OutputChannel_send_text_with_buttons(
                cls, recipient_id, Some(element_msg(Head(elements))), Head(elements).buttons),
            OutputChannel_send_custom_message(cls, recipient_id, Tail(elements)))

\* OutputChannel.send_response on a channel that keeps the defaults
OutputChannel_send_response(cls, recipient_id, message) ==
  Then(IF Truthy(get(message, "elements"))
         THEN OutputChannel_send_custom_message(cls, recipient_id, message.elements)
       ELSE IF Truthy(get(message, "buttons"))
         THEN OutputChannel_send_text_with_buttons(
                  cls, recipient_id, get(message, "text"), message.buttons)
       ELSE IF Truthy(get(message, "text"))
         THEN self_send_text_message(cls, recipient_id, get(message, "text"))
       ELSE Returned(<<>>),
  Then(IF Truthy(get(message, "image"))
         THEN OutputChannel_send_image_url(cls, recipient_id, message.image)
         ELSE Returned(<<>>),
       IF Truthy(get(message, "attachment"))
         THEN OutputChannel_send_attachment(cls, recipient_id, message.attachment)
         ELSE Returned(<<>>)))

latest_output_first(msgs) ==
  IF msgs # <<>> THEN Some(msgs[1]) ELSE None

\* CollectingOutputChannel.latest_output
latest_output(msgs) ==
  IF msgs # <<>> THEN Some(msgs[Len(msgs)]) ELSE None

-----------------------------------------------------------------------------
(* A channel used on its own: some caller holds an OutputChannel, a text    *)
(* only channel or a CollectingOutputChannel and calls its methods.         *)

ChannelClasses == {"OutputChannel", "TextOutputChannel", "CollectingOutputChannel"}
ChannelOps == {"send_response", "send_text_message", "send_image_url",
               "send_attachment", "send_text_with_buttons"}
ChannelRecipient == "u1"

\* the arguments of a first call, as a dict from argument name to value
RichArgs(op) ==
  CASE op = "send_response" -> Payloads
    [] op = "send_text_message" -> {[text |-> t] : t \in Texts}
    [] op = "send_image_url" -> {[image |-> u] : u \in Urls}
    [] op = "send_attachment" -> {[attachment |-> f] : f \in Files}
    [] op = "send_text_with_buttons" ->
         {Payload(t, Some(bs), None, None, None) : t \in Optional(ShortTexts), bs \in ButtonLists}

\* the arguments of the calls of a longer sequence
SmallArgs(op) ==
  CASE op = "send_response" -> BridgePayloads
    [] op = "send_text_message" -> {[text |-> <<"a">>], [text |-> <<"a", "\n", "\n", "a">>]}
    [] op = "send_image_url" -> {[image |-> <<"u">>]}
    [] op = "send_attachment" -> {[attachment |-> <<"f">>]}
    [] op = "send_text_with_buttons" -> {[text |-> <<"a">>, buttons |-> <<YesButton, NoButton>>]}
    [] op = "latest_output" -> {EmptyDict}

\* the method op of a channel of class cls, called with args
ChannelCall(cls, op, args) ==
  IF cls = "CollectingOutputChannel"
    THEN Returned(
           CASE op = "send_response" -> send_response(ChannelRecipient, args)
             [] op = "send_text_message" ->
                  CollectingOutputChannel_send_text_message(ChannelRecipient, args.text)
             [] op = "send_image_url" ->
                  CollectingOutputChannel_send_image_url(ChannelRecipient, args.image)
             [] op = "send_attachment" ->
                  CollectingOutputChannel_send_attachment(ChannelRecipient, args.attachment)
             [] op = "send_text_with_buttons" ->
                  CollectingOutputChannel_send_text_with_buttons(
                      ChannelRecipient, get(args, "text"), args.buttons))
    ELSE CASE op = "send_response" -> OutputChannel_send_response(cls, ChannelRecipient, args)
           [] op = "send_text_message" ->
                self_send_text_message(cls, ChannelRecipient, Some(args.text))
           [] op = "send_image_url" ->
                OutputChannel_send_image_url(cls, ChannelRecipient, args.image)
           [] op = "send_attachment" ->
                OutputChannel_send_attachment(cls, ChannelRecipient, args.attachment)
           [] op = "send_text_with_buttons" ->
                OutputChannel_send_text_with_buttons(
                    cls, ChannelRecipient, get(args, "text"), args.buttons)

RequestVars == <<request, handlerPc, workerPc, userMessage, invocations, calls, messages,
                 queue, pending, emitted, gets, yielded, response>>

\* the caller calls the method op with args; an exception ends the call
channel_call(op, args) ==
  /\ channel.cls \in ChannelClasses
  /\ LET result == ChannelCall(channel.cls, op, args)
     IN channel' = [channel EXCEPT
                      !.out = IF channel.cls = "CollectingOutputChannel"
                                THEN persist_all(@, result.out)
                                ELSE @ \o result.out,
                      !.raised = result.raised,
                      !.ops = Append(@, [op |-> op, args |-> args])]
  /\ UNCHANGED RequestVars

\* the caller calls latest_output() of a CollectingOutputChannel
channel_latest_output ==
  /\ channel.cls = "CollectingOutputChannel"
  /\ channel' = [channel EXCEPT
                   !.latest = Some(latest_output(channel.out)),
                   !.raised = None,
                   !.ops = Append(@, [op |-> "latest_output", args |-> EmptyDict])]
  /\ UNCHANGED RequestVars

ChannelInit ==
  /\ InitRequests({rq \in PairRequests :
                     \A r \in Requests : rq[r].json = [sender |-> "u1", message |-> "hi"]})
  /\ channel \in {[NoChannel EXCEPT !.cls = c] : c \in ChannelClasses}

\* one call with any arguments, or up to MaxCalls calls with the small ones
ChannelNext ==
  \/ /\ channel.ops = <<>>
     /\ \E op \in ChannelOps : \E args \in RichArgs(op) : channel_call(op, args)
  \/ /\ channel.ops # <<>>
     /\ Len(channel.ops) < MaxCalls
     /\ \A i \in DOMAIN channel.ops : channel.ops[i].args \in SmallArgs(channel.ops[i].op)
     /\ \/ \E op \in ChannelOps : \E args \in SmallArgs(op) : channel_call(op, args)
        \/ channel_latest_output
  \/ /\ channel.ops = <<>>
     /\ channel_latest_output

SpecChannel == ChannelInit /\ [][ChannelNext]_vars

-----------------------------------------------------------------------------
(* The default methods of OutputChannel *)

Primitives == {"send_text_message", "send_image_url", "send_attachment",
               "send_text_with_buttons"}

\* the primitives a class defines itself
Overrides(cls) ==
  CASE cls = "OutputChannel" -> {}
    [] cls = "TextOutputChannel" -> {"send_text_message"}
    [] cls = "CollectingOutputChannel" -> Primitives

LastOp == channel.ops[Len(channel.ops)]

\* the call makes the channel send something: a primitive always does,
\* send_response when one of the keys of the payload is present
ReachesSend(call) ==
  \/ call.op \in Primitives
  \/ /\ call.op = "send_response"
     /\ \E key \in {"text", "buttons", "elements", "image", "attachment"} :
          Present(call.args, key)

\* C11 as stated: a call of any of the four primitives on a channel whose
\* class does not override it ends with NotImplementedError, on the base
\* channel and on the text only channel.
C11_UnoverriddenPrimitiveRaises ==
  (/\ channel.ops # <<>>
   /\ LastOp.op \in Primitives
   /\ LastOp.op \notin Overrides(channel.cls)) =>
     channel.raised = Some("NotImplementedError")

\* C11 amended: a call ends with NotImplementedError exactly when the channel
\* does not override send_text_message and the call reaches it, directly or
\* through send_image_url, send_attachment, send_text_with_buttons or
\* send_response; the exception ends the call, nothing is sent.  On a channel
\* that overrides send_text_message alone no call raises.
C11_OnlyTextMessageRaises ==
  channel.ops # <<>> =>
    /\ (channel.raised = Some("NotImplementedError")) <=>
         (channel.cls = "OutputChannel" /\ ReachesSend(LastOp))
    /\ channel.raised \in {None, Some("NotImplementedError")}
    /\ channel.cls = "OutputChannel" => channel.out = <<>>

C11_Witness ==
  /\ channel.cls = "OutputChannel"
  /\ channel.ops # <<>>
  /\ LastOp.op = "send_response"
  /\ Present(LastOp.args, "text")
  /\ Present(LastOp.args, "image")
  /\ channel.raised = Some("NotImplementedError")

\* the text of the i-th button (1-based), for i < 10
ButtonLine(button, i) ==
  <<Digits[i + 1], ":", " ">> \o button.title \o <<" ", "(">> \o button.payload \o <<")">>

TextCall(text) == [recipient_id |-> ChannelRecipient, text |-> text]

\* C13: on the text only channel a text with buttons b1..bn is sent as n + 1
\* texts: the body text, then "<i>: <title> (<payload>)" for i = 1..n in the
\* order of the buttons; an image is sent as the text "Image: <url>", an
\* attachment as "Attachment: <value>".
C13_TextOnlyRendering ==
  (channel.cls = "TextOutputChannel" /\ Len(channel.ops) = 1) =>
    LET call == channel.ops[1]
        args == call.args
        out == channel.out
    IN /\ (\/ call.op = "send_text_with_buttons"
           \/ /\ call.op = "send_response"
              /\ Present(args, "buttons") /\ ~Present(args, "elements")
              /\ ~Present(args, "image") /\ ~Present(args, "attachment")) =>
            /\ Len(out) = Len(args.buttons) + 1
            /\ out[1] = TextCall(get(args, "text"))
            /\ \A i \in 1..Len(args.buttons) :
                 out[i + 1] = TextCall(Some(ButtonLine(args.buttons[i], i)))
       /\ call.op = "send_image_url" =>
            out = <<TextCall(Some(<<"I", "m", "a", "g", "e", ":", " ">> \o args.image))>>
       /\ call.op = "send_attachment" =>
            out = <<TextCall(Some(<<"A", "t", "t", "a", "c", "h", "m", "e", "n", "t", ":", " ">>
                                    \o args.attachment))>>
       /\ (call.op = "send_response" /\ Present(args, "image")) =>
            \E i \in 1..Len(out) :
              out[i] = TextCall(Some(<<"I", "m", "a", "g", "e", ":", " ">> \o args.image))
       /\ (call.op = "send_response" /\ Present(args, "attachment")) =>
            out[Len(out)] =
              TextCall(Some(<<"A", "t", "t", "a", "c", "h", "m", "e", "n", "t", ":", " ">>
                              \o args.attachment))

C13_Witness ==
  /\ channel.cls = "TextOutputChannel"
  /\ Len(channel.ops) = 1
  /\ channel.ops[1].op = "send_text_with_buttons"
  /\ Len(channel.ops[1].args.buttons) = 2
  /\ channel.ops[1].args.buttons[1] # channel.ops[1].args.buttons[2]
  /\ Len(channel.out) = 3

-----------------------------------------------------------------------------
(* The messages of a CollectingOutputChannel *)

IsPrefix(s, t) == Len(s) <= Len(t) /\ SubSeq(t, 1, Len(s)) = s

\* the step is a call of latest_output()
LatestOutputStep ==
  /\ Len(channel'.ops) = Len(channel.ops) + 1
  /\ channel'.ops[Len(channel'.ops)].op = "latest_output"

\* C15: every call on a CollectingOutputChannel leaves the messages it held
\* as a prefix of the messages it holds afterwards; latest_output() returns
\* the last message, or None when there is none, and leaves the messages as
\* they are.
C15_AppendOnlyAndLatest ==
  [][channel.cls = "CollectingOutputChannel" =>
       /\ IsPrefix(channel.out, channel'.out)
       /\ LatestOutputStep =>
            /\ channel'.out = channel.out
            /\ channel'.latest =
                 Some(IF channel.out = <<>> THEN None
                      ELSE Some(channel.out[Len(channel.out)]))]_vars

\* latest_output() was called after two calls that left different messages
C15_Witness ==
  /\ channel.cls = "CollectingOutputChannel"
  /\ Len(channel.ops) = 2
  /\ channel.ops[1].op = "send_response"
  /\ channel.ops[2].op = "latest_output"
  /\ Len(channel.out) >= 2
  /\ channel.out[1] # channel.out[Len(channel.out)]
  /\ channel.latest = Some(Some(channel.out[Len(channel.out)]))

-----------------------------------------------------------------------------
(* The fields of a stored message *)

\* the keys of the message a send_* method builds from the given arguments
PopulatedKeys(given) == {"recipient_id"} \cup given

\* C14: every message a CollectingOutputChannel or a QueueOutputChannel holds
\* has recipient_id and exactly the keys whose values the send_* call that
\* built it was given: no key is stored for a value that was not given.  A
\* message built from text alone has no image, buttons or attachment key.
C14_OnlyPopulatedFields ==
  \A r \in Requests :
    OneCallDone(r) =>
      LET p == calls[r][1]
          rid == Val(userMessage[r]).sender_id
          out == SinkContent(r)
          ni == Count(Present(p, "image"))
          na == Count(Present(p, "attachment"))
          np == Len(out) - ni - na
      IN /\ \A i \in 1..Len(out) : out[i].recipient_id = rid
         /\ \A i \in 1..np :
              DOMAIN out[i] =
                IF Present(p, "elements")
                  THEN PopulatedKeys({"text", "buttons"})
                ELSE IF Present(p, "buttons")
                  THEN PopulatedKeys({"buttons"} \cup ({"text"} \cap DOMAIN p))
                ELSE PopulatedKeys({"text"})
         /\ Present(p, "image") => DOMAIN out[Len(out) - na] = PopulatedKeys({"image"})
         /\ Present(p, "attachment") => DOMAIN out[Len(out)] = PopulatedKeys({"attachment"})
         /\ \A i \in 1..Len(queue[queue_of(r)]) :
              queue[queue_of(r)][i] \in Range(out)

\* buttons without a text, then an image: two messages, neither with a text key
C14_Witness ==
  \E r \in Requests :
    /\ OneCallDone(r)
    /\ Streamed(r)
    /\ Present(calls[r][1], "buttons")
    /\ "text" \notin DOMAIN calls[r][1]
    /\ Present(calls[r][1], "image")
    /\ Len(SinkContent(r)) = 2
    /\ Len(queue[queue_of(r)]) = 2

-----------------------------------------------------------------------------
(* The sentinel *)

\* the number of sentinels in the sequence q
NumDone(q) == Cardinality({i \in 1..Len(q) : q[i] = DONE})

\* all the messages the callback's send_response calls of request r produce
Produced(r) ==
  Concat([i \in 1..Len(calls[r]) |->
            send_response(Val(userMessage[r]).sender_id, calls[r][i])])

\* C16: in a streamed request the sentinel is put at most once, and after
\* every message the callback produced has been put: it is the last item of
\* the queue, and once the reader has taken it the queue is empty and stays
\* empty.
C16_SentinelOnceAndLast ==
  /\ [](\A r \in Requests :
          Streamed(r) =>
            LET q == queue[queue_of(r)]
            IN /\ NumDone(q) + Count(handlerPc[r] = "done") <= 1
               /\ \A i \in 1..Len(q) : q[i] = DONE => i = Len(q)
               /\ workerPc[r] \in {"put_done", "done"} =>
                    (pending[r] = <<>> /\ emitted[r] = Produced(r))
               /\ (NumDone(q) = 1 \/ handlerPc[r] = "done") => workerPc[r] = "done"
               /\ handlerPc[r] = "done" => q = <<>>)
  /\ [][\A r \in Requests :
          (Streamed(r) /\ handlerPc[r] = "done") => queue'[queue_of(r)] = <<>>]_vars

C16_Witness ==
  \E r \in Requests :
    /\ Streamed(r)
    /\ workerPc[r] = "done"
    /\ handlerPc[r] = "done"
    /\ Len(calls[r]) = 2
    /\ Len(emitted[r]) >= 3
    /\ queue[queue_of(r)] = <<>>

-----------------------------------------------------------------------------
(* Blocking *)

\* C17: no put of the worker waits for the reader: whenever the worker is at
\* a put, of a message or of the sentinel, the put can be made, whatever the
\* reader has taken so far, so a worker whose callback has returned puts the
\* sentinel even if the reader takes nothing.  The reader's get is the step
\* that waits: it cannot be made while the queue is empty.
C17_WorkerNeverWaits ==
  \A r \in Requests :
    /\ (workerPc[r] = "callback" /\ pending[r] # <<>>) => ENABLED worker_put(r)
    /\ workerPc[r] = "put_done" => ENABLED worker_put_done(r)
    /\ (workerPc[r] = "callback" /\ pending[r] = <<>>) => ENABLED callback_return(r)
    /\ (handlerPc[r] = "stream" /\ queue[queue_of(r)] = <<>>) => ~ENABLED reader_get(r)
    /\ (handlerPc[r] = "stream" /\ queue[queue_of(r)] # <<>>) => ENABLED reader_get(r)

\* the worker has put three messages and the sentinel, the reader has taken
\* nothing
C17_Witness ==
  \E r \in Requests :
    /\ Streamed(r)
    /\ workerPc[r] = "done"
    /\ gets[r] = 0
    /\ Len(emitted[r]) >= 3
    /\ Len(queue[queue_of(r)]) = Len(emitted[r]) + 1

-----------------------------------------------------------------------------
(* A callback that raises while streaming *)

\* the lines of the messages msgs, as the reader yields them
Lines(msgs) == [i \in 1..Len(msgs) |-> json_line(msgs[i])]

\* C20: when the callback of a streamed request has raised, the messages it
\* emitted before are all still yielded, in the order of their emission: what
\* the reader has yielded and what is left on the queue are together the
\* emitted messages, the reader can take what is left, and when it waits at
\* the empty queue it has yielded every one of them.
C20_FailureKeepsEmitted ==
  \A r \in Requests :
    workerPc[r] = "dead" =>
      LET q == queue[queue_of(r)]
      IN /\ yielded[r] \o Lines(q) = Lines(emitted[r])
         /\ emitted[r] = Produced(r)
         /\ q # <<>> => ENABLED reader_get(r)
         /\ handlerPc[r] = "stream"
         /\ q = <<>> => yielded[r] = Lines(emitted[r])

C20_Witness ==
  \E r \in Requests :
    /\ workerPc[r] = "dead"
    /\ queue[queue_of(r)] = <<>>
    /\ Len(calls[r]) = 1
    /\ Len(yielded[r]) = 2
    /\ yielded[r][1] # yielded[r][2]
    /\ yielded[r] = Lines(emitted[r])

-----------------------------------------------------------------------------
(* Requests with missing fields *)

\* the JSON bodies with and without the sender and the message field
AllJsonBodies ==
  {[sender |-> "u1", message |-> "hi"], [message |-> "hi"], [sender |-> "u1"], EmptyDict}

AnyBodyRequests ==
  {rq \in [Requests -> [json : AllJsonBodies, args : {EmptyDict, [stream |-> TRUE]}]] :
     /\ rq["r1"].args = EmptyDict
     /\ rq["r2"].args = [stream |-> TRUE]}

RequestInit ==
  /\ InitRequests(AnyBodyRequests)
  /\ channel = NoChannel

\* each request is handled with a callback that answers once and returns
RequestNext ==
  \E r \in Requests :
    \/ receive(r)
    \/ /\ InCallback(r)
       /\ calls[r] = <<>>
       /\ \E p \in BridgePayloads : callback_send(r, p)
    \/ worker_put(r)
    \/ callback_return(r)
    \/ worker_put_done(r)
    \/ reader_get(r)

SpecRequest == RequestInit /\ [][RequestNext]_vars

\* C12 as stated: the message handed to the callback carries the sender and
\* the message field of the request as they are, None when the field is
\* missing; nothing is substituted and the request is not rejected.
C12_MissingFieldsPassedAsNull ==
  \A r \in Requests :
    handlerPc[r] # "idle" =>
      /\ userMessage[r] # None
      /\ invocations[r] = 1
      /\ Val(userMessage[r]).text = _extract_message(request[r])
      /\ Some(Val(userMessage[r]).sender_id) =
           IF "sender" \in DOMAIN request[r].json
             THEN _extract_sender(request[r])
             ELSE None

\* C12 amended: a missing message field is handed to the callback as None; a
\* missing sender is replaced by DEFAULT_SENDER_ID, "default", which is also
\* the recipient of the answers; in both cases the callback is invoked once,
\* on the buffered and on the streamed path.
C12_MissingSenderIsDefault ==
  \A r \in Requests :
    handlerPc[r] # "idle" =>
      /\ userMessage[r] # None
      /\ invocations[r] = 1
      /\ Val(userMessage[r]).text = _extract_message(request[r])
      /\ "message" \notin DOMAIN request[r].json => Val(userMessage[r]).text = None
      /\ Val(userMessage[r]).sender_id =
           IF "sender" \in DOMAIN request[r].json
             THEN request[r].json.sender
             ELSE "default"
      /\ \A i \in 1..Len(SinkContent(r)) :
           SinkContent(r)[i].recipient_id = Val(userMessage[r]).sender_id

C12_Witness ==
  /\ \A r \in Requests : request[r].json = EmptyDict /\ handlerPc[r] = "done"
  /\ \A r \in Requests : Val(userMessage[r]).text = None
  /\ \A r \in Requests : Val(userMessage[r]).sender_id = "default"
  /\ response["r1"] # None /\ Val(response["r1"]).json # <<>>
  /\ yielded["r2"] # <<>>

-----------------------------------------------------------------------------
(* Two streamed requests at the same time *)

\* both requests are posted with stream; r1 names its sender, r2 does not
StreamRequests ==
  {rq \in [Requests -> [json : JsonBodies, args : {[stream |-> TRUE]}]] :
     /\ rq["r1"].json = [sender |-> "u1", message |-> "hi"]
     /\ rq["r2"].json = [message |-> "hi"]}

StreamsInit ==
  /\ InitRequests(StreamRequests)
  /\ channel = NoChannel

\* each callback answers at most once, then returns or raises
StreamsNext ==
  \E r \in Requests :
    \/ receive(r)
    \/ /\ InCallback(r)
       /\ calls[r] = <<>>
       /\ \E p \in BridgePayloads : callback_send(r, p)
    \/ worker_put(r)
    \/ callback_return(r)
    \/ callback_raise(r)
    \/ worker_put_done(r)
    \/ reader_get(r)

SpecStreams == StreamsInit /\ [][StreamsNext]_vars

\* the messages of the sequence q, without the sentinel
MessagesOf(q) == SelectSeq(q, LAMBDA item : item # DONE)

\* C18: two streamed requests do not share a queue: what is on the queue of a
\* request are messages its own worker put, addressed to its own sender, and
\* its own sentinel; its reader yields its own messages, in order, and when
\* it has ended its own worker has put the sentinel and all the messages of
\* its own callback are yielded, none of the other request.
C18_StreamsIsolated ==
  \A r \in Requests :
    userMessage[r] # None =>
      LET q == queue[queue_of(r)]
          rid == Val(userMessage[r]).sender_id
      IN /\ \A i \in 1..Len(q) : q[i] = DONE \/ q[i].recipient_id = rid
         /\ \A i \in 1..Len(yielded[r]) : yielded[r][i].json.recipient_id = rid
         /\ yielded[r] \o Lines(MessagesOf(q)) = Lines(emitted[r])
         /\ NumDone(q) = Count(workerPc[r] = "done" /\ handlerPc[r] # "done")
         /\ handlerPc[r] = "done" =>
              (workerPc[r] = "done" /\ yielded[r] = Lines(Produced(r)))

\* both workers are in their callbacks, both readers have yielded a message
\* and both queues hold another one
C18_Witness ==
  /\ \A r \in Requests :
       /\ workerPc[r] = "callback"
       /\ Len(yielded[r]) >= 1
       /\ queue[queue_of(r)] # <<>>
  /\ Val(userMessage["r1"]).sender_id # Val(userMessage["r2"]).sender_id

-----------------------------------------------------------------------------
(* Streaming under a fair reader *)

\* the reader's loop goes on: a q.get() that can return does return.  Nothing
\* is assumed of the callback, which may go on for ever.
SpecIncremental ==
  StreamsInit /\ [][StreamsNext]_vars /\ \A r \in Requests : WF_vars(reader_get(r))

\* the numbers of messages one call of send_response can have put
EmittedCounts ==
  UNION {1..Len(send_response(DEFAULT_SENDER_ID, p)) : p \in BridgePayloads}

\* C19: with a fair reader every message put on the queue is eventually
\* yielded, whether or not the callback ever returns: once k messages are
\* emitted, k lines are eventually yielded.
C19_EmittedIsEventuallyYielded ==
  \A r \in Requests : \A k \in EmittedCounts :
    (Len(emitted[r]) >= k) ~> (Len(yielded[r]) >= k)

\* the reader has yielded the first message while the callback is running:
\* the second message is not yet put, nor is the sentinel
C19_Witness ==
  \E r \in Requests :
    /\ workerPc[r] = "callback"
    /\ Len(yielded[r]) = 1
    /\ Len(emitted[r]) = 1
    /\ pending[r] # <<>>
    /\ queue[queue_of(r)] = <<>>

====
